---- MODULE Spec2Model ----
(***************************************************************************)
(* Model of the Terraform provider for Sonatype Nexus: the lifecycle       *)
(* callbacks of the file blobstore resource, the user-token resource, the  *)
(* legacy repository resource and the yum-proxy repository data source,    *)
(* over an abstract Nexus server, and the schema of the http_client block  *)
(* of the proxy repositories.                                              *)
(* The Nexus client library is external: each client call either succeeds  *)
(* atomically on the remote state or fails with no remote effect.          *)
(***************************************************************************)
EXTENDS Integers, Sequences, FiniteSets, TLC

VARIABLES
    kind,        \* the resource or data source the plugin host drives in this run
    remote,      \* Nexus: blobstore name -> <<>> (absent) or <<blobstore>>
    d,           \* the state of the nexus_blobstore_file resource: its stored ResourceData
    config,      \* <<>> or <<configuration>>: the validated blobstore-file configuration to apply
    last,        \* outcome of the last blobstore-file callback
    created,     \* <<>> or <<[d, r]>>: ResourceData and remote object after the last successful Create
    tokenRemote, \* Nexus: the global user-token configuration
    td,          \* the ResourceData of the nexus_security_user_token resource
    tconfig,     \* <<>> or <<configuration>>: the user-token configuration last planned
    tlast,       \* outcome of the last user-token callback
    tcreated,    \* <<>> or <<ResourceData>> after the last successful user-token Create
    tconfigured, \* <<>> or <<configuration>>: what the last successful Configure sent to Nexus
    repos,       \* Nexus: repository name -> <<>> (absent) or <<yum proxy repository>>
    ds,          \* the ResourceData of the yum-proxy repository data source
    dslast,      \* outcome of the last data source Read
    lrepos,      \* Nexus: repository name -> <<>> (absent) or <<legacy repository>>
    ld,          \* the ResourceData of the nexus_repository resource
    llast,       \* outcome of the last nexus_repository callback
    hd,          \* the http_client block of a proxy repository: attribute -> <<>> or <<value>>
    hlast        \* outcome of the last plan of an http_client block

bvars == <<remote, d, config, last, created>>

tvars == <<tokenRemote, td, tconfig, tlast, tcreated, tconfigured>>

dvars == <<repos, ds, dslast>>

lvars == <<lrepos, ld, llast>>

hvars == <<hd, hlast>>

vars == <<kind, bvars, tvars, dvars, lvars, hvars>>

----------------------------------------------------------------------------
(* Bounds of the model *)

\* number of distinct blobstore names
NumNames == 2

\* Nexus reports a blob count in 1..MaxBlobCount for a blobstore
MaxBlobCount == 1

NamePool == <<"bs-a", "bs-b", "bs-c", "bs-d">>

NameSeq == SubSeq(NamePool, 1, NumNames)

Names == {NameSeq[i] : i \in 1..NumNames}

Paths == {"", "/nexus-data/bs"}

----------------------------------------------------------------------------
(* Schema of nexus_blobstore_file *)

\* validation.IntAtLeast(min)
IntAtLeast(min, v) == v >= min

\* validation.StringInSlice(valid, false)
StringInSlice(valid, v) == v \in valid

\* the argument of IntAtLeast in the schema of soft_quota.limit
SoftQuotaLimitMin == 100000

\* the minimum the description of soft_quota.limit documents
DocumentedLimitMin == 1000000

SoftQuotaTypes == {"spaceRemainingQuota", "spaceUsedQuota"}

SoftQuotaMaxItems == 1

\* soft_quota limits a configuration may carry: the values around both minima
LimitInputs == {SoftQuotaLimitMin - 1, SoftQuotaLimitMin, DocumentedLimitMin}

\* soft_quota types a configuration may carry: one the schema lists and one it does not
TypeInputs == {"spaceRemainingQuota", "other"}

QuotaInputs == {<<>>} \cup {<<[limit |-> l, type |-> t]>> : l \in LimitInputs, t \in TypeInputs}

\* the ValidateFuncs of one soft_quota block
validateSoftQuota(q) ==
    /\ IntAtLeast(SoftQuotaLimitMin, q.limit)
    /\ StringInSlice(SoftQuotaTypes, q.type)

\* schema validation of a configuration of the resource
validateBlobstoreFile(cfg) ==
    /\ Len(cfg.soft_quota) <= SoftQuotaMaxItems
    /\ \A i \in 1..Len(cfg.soft_quota) : validateSoftQuota(cfg.soft_quota[i])

\* a ResourceData with nothing set
EmptyData ==
    [id |-> "", name |-> "", path |-> "", soft_quota |-> <<>>,
     available_space_in_bytes |-> 0, blob_count |-> 0, total_size_in_bytes |-> 0]

----------------------------------------------------------------------------
(* The Nexus client library (external), as the callbacks use it *)

\* what Nexus computes for a blobstore: blobstore.Generic without the name
Metrics ==
    {[availableSpaceInBytes |-> 100 - c, blobCount |-> c, totalSizeInBytes |-> 10 * c] :
        c \in 1..MaxBlobCount}

\* blobstore.File of a stored blobstore
FileOf(b) == [name |-> b.name, path |-> b.path, softQuota |-> b.softQuota]

\* blobstore.Generic of a stored blobstore
GenericOf(b) ==
    [name |-> b.name, availableSpaceInBytes |-> b.availableSpaceInBytes,
     blobCount |-> b.blobCount, totalSizeInBytes |-> b.totalSizeInBytes]

\* the zero value of blobstore.Generic
ZeroGeneric ==
    [name |-> "", availableSpaceInBytes |-> 0, blobCount |-> 0, totalSizeInBytes |-> 0]

Exists(rem, name) == name \in Names /\ rem[name] # <<>>

\* BlobStore.File.Create(&bs): fails when the call fails or the name is taken
FileCreate(rem, bs, fail, m) ==
    IF fail \/ bs.name \notin Names \/ Exists(rem, bs.name)
    THEN [err |-> TRUE, remote |-> rem]
    ELSE [err |-> FALSE,
          remote |-> [rem EXCEPT ![bs.name] =
                         <<[name |-> bs.name, path |-> bs.path, softQuota |-> bs.softQuota,
                            availableSpaceInBytes |-> m.availableSpaceInBytes,
                            blobCount |-> m.blobCount,
                            totalSizeInBytes |-> m.totalSizeInBytes]>>]]

\* BlobStore.File.Get(id): (bs, err); a missing blobstore is (nil, nil) or an error
FileGet(rem, id, fail, nilOnMissing) ==
    IF fail THEN [err |-> TRUE, bs |-> <<>>]
    ELSE IF Exists(rem, id) THEN [err |-> FALSE, bs |-> <<FileOf(rem[id][1])>>]
    ELSE IF nilOnMissing THEN [err |-> FALSE, bs |-> <<>>]
    ELSE [err |-> TRUE, bs |-> <<>>]

RECURSIVE ListFrom(_, _)
ListFrom(rem, i) ==
    IF i > NumNames THEN <<>>
    ELSE (IF rem[NameSeq[i]] # <<>> THEN <<GenericOf(rem[NameSeq[i]][1])>> ELSE <<>>)
         \o ListFrom(rem, i + 1)

\* BlobStore.List(): (list, err)
BlobStoreList(rem, fail) ==
    IF fail THEN [err |-> TRUE, list |-> <<>>]
    ELSE [err |-> FALSE, list |-> ListFrom(rem, 1)]

\* BlobStore.File.Update(id, &bs): PUT on the blobstore named id; the name is the path's
FileUpdate(rem, id, bs, fail) ==
    IF fail \/ ~Exists(rem, id)
    THEN [err |-> TRUE, remote |-> rem]
    ELSE [err |-> FALSE,
          remote |-> [rem EXCEPT ![id] =
                         <<[rem[id][1] EXCEPT !.path = bs.path, !.softQuota = bs.softQuota]>>]]

\* BlobStore.File.Delete(id)
FileDelete(rem, id, fail) ==
    IF fail \/ ~Exists(rem, id)
    THEN [err |-> TRUE, remote |-> rem]
    ELSE [err |-> FALSE, remote |-> [rem EXCEPT ![id] = <<>>]]

----------------------------------------------------------------------------
(* Callbacks of nexus_blobstore_file *)

\* flattenBlobstoreSoftQuota: the one-element list Terraform stores for a soft quota
flattenBlobstoreSoftQuota(sq) == <<[limit |-> sq.limit, type |-> sq.type]>>

getBlobstoreFileFromResourceData(rd) ==
    [name |-> rd.name,
     path |-> IF rd.path # "" THEN rd.path ELSE "",
     softQuota |-> IF rd.soft_quota # <<>>
                   THEN <<[limit |-> rd.soft_quota[1].limit, type |-> rd.soft_quota[1].type]>>
                   ELSE <<>>]

\* the loop of the Read over the generic blobstores: the last entry of that name
RECURSIVE FindGeneric(_, _, _, _)
FindGeneric(list, i, name, acc) ==
    IF i > Len(list) THEN acc
    ELSE FindGeneric(list, i + 1, name, IF list[i].name = name THEN list[i] ELSE acc)

\* what a callback hands back: the ResourceData, the result and which client call failed
Outcome(rd, res, failed, getNil, listLen) ==
    [d |-> rd, res |-> res, failed |-> failed, getNil |-> getNil, listLen |-> listLen]

\* a Read that forgets to set the path
resourceBlobstoreFileRead_NoPath(rd, rem, fault, nilOnMissing) ==
    LET g == FileGet(rem, rd.id, fault = "Get", nilOnMissing)
        l == BlobStoreList(rem, fault = "List")
    IN  IF g.err THEN Outcome(rd, "error", "Get", FALSE, 0)
        ELSE IF l.err THEN Outcome(rd, "error", "List", g.bs = <<>>, 0)
        ELSE IF g.bs = <<>> /\ Len(l.list) > 0
             THEN Outcome(rd, "panic", "", TRUE, Len(l.list))
        ELSE IF g.bs = <<>>
             THEN Outcome([rd EXCEPT !.id = ""], "ok", "", TRUE, Len(l.list))
        ELSE LET bs == g.bs[1]
                 info == FindGeneric(l.list, 1, bs.name, ZeroGeneric)
                 d1 == [rd EXCEPT !.available_space_in_bytes = info.availableSpaceInBytes,
                                  !.blob_count = info.blobCount,
                                  !.name = bs.name,
                                  !.total_size_in_bytes = info.totalSizeInBytes]
                 d2 == IF bs.softQuota # <<>>
                       THEN [d1 EXCEPT !.soft_quota = flattenBlobstoreSoftQuota(bs.softQuota[1])]
                       ELSE d1
             IN  Outcome(d2, "ok", "", FALSE, Len(l.list))

\* resourceBlobstoreFileRead. bs.Name is read in the loop before bs is tested
\* for nil: with bs nil the first iteration dereferences nil and the plugin panics.
resourceBlobstoreFileRead(rd, rem, fault, nilOnMissing) ==
    LET g == FileGet(rem, rd.id, fault = "Get", nilOnMissing)
        l == BlobStoreList(rem, fault = "List")
    IN  IF g.err THEN Outcome(rd, "error", "Get", FALSE, 0)
        ELSE IF l.err THEN Outcome(rd, "error", "List", g.bs = <<>>, 0)
        ELSE IF g.bs = <<>> /\ Len(l.list) > 0
             THEN Outcome(rd, "panic", "", TRUE, Len(l.list))
        ELSE IF g.bs = <<>>
             THEN Outcome([rd EXCEPT !.id = ""], "ok", "", TRUE, Len(l.list))
        ELSE LET bs == g.bs[1]
                 info == FindGeneric(l.list, 1, bs.name, ZeroGeneric)
                 d1 == [rd EXCEPT !.available_space_in_bytes = info.availableSpaceInBytes,
                                  !.blob_count = info.blobCount,
                                  !.name = bs.name,
                                  !.path = bs.path,
                                  !.total_size_in_bytes = info.totalSizeInBytes]
                 d2 == IF bs.softQuota # <<>>
                       THEN [d1 EXCEPT !.soft_quota = flattenBlobstoreSoftQuota(bs.softQuota[1])]
                       ELSE d1
             IN  Outcome(d2, "ok", "", FALSE, Len(l.list))

\* resourceBlobstoreRead, the read the Create ends with: taken to behave as the file Read
resourceBlobstoreRead(rd, rem, fault, nilOnMissing) ==
    resourceBlobstoreFileRead(rd, rem, fault, nilOnMissing)

\* resourceBlobstoreFileCreate
resourceBlobstoreFileCreate(rd, rem, fault, nilOnMissing, m) ==
    LET bs == getBlobstoreFileFromResourceData(rd)
        c == FileCreate(rem, bs, fault = "Create", m)
        d1 == [rd EXCEPT !.id = bs.name, !.name = bs.name]
        r == resourceBlobstoreRead(d1, c.remote, fault, nilOnMissing)
    IN  IF c.err
        THEN [out |-> Outcome(rd, "error", "Create", FALSE, 0), remote |-> rem]
        ELSE [out |-> IF r.res = "panic" THEN [r EXCEPT !.d = rd] ELSE r, remote |-> c.remote]

\* resourceBlobstoreFileUpdate
resourceBlobstoreFileUpdate(rd, rem, fault) ==
    LET bs == getBlobstoreFileFromResourceData(rd)
        u == FileUpdate(rem, rd.id, bs, fault = "Update")
    IN  IF u.err
        THEN [out |-> Outcome(rd, "error", "Update", FALSE, 0), remote |-> rem]
        ELSE [out |-> Outcome(rd, "ok", "", FALSE, 0), remote |-> u.remote]

\* a Delete that clears the ID before it looks at the error
resourceBlobstoreFileDelete_ClearsFirst(rd, rem, fault) ==
    LET x == FileDelete(rem, rd.id, fault = "Delete")
    IN  IF x.err
        THEN [out |-> Outcome([rd EXCEPT !.id = ""], "error", "Delete", FALSE, 0), remote |-> rem]
        ELSE [out |-> Outcome([rd EXCEPT !.id = ""], "ok", "", FALSE, 0), remote |-> x.remote]

\* a Delete that leaves the ID in place
resourceBlobstoreFileDelete_KeepsId(rd, rem, fault) ==
    LET x == FileDelete(rem, rd.id, fault = "Delete")
    IN  IF x.err
        THEN [out |-> Outcome(rd, "error", "Delete", FALSE, 0), remote |-> rem]
        ELSE [out |-> Outcome(rd, "ok", "", FALSE, 0), remote |-> x.remote]

\* resourceBlobstoreFileDelete
resourceBlobstoreFileDelete(rd, rem, fault) ==
    LET x == FileDelete(rem, rd.id, fault = "Delete")
    IN  IF x.err
        THEN [out |-> Outcome(rd, "error", "Delete", FALSE, 0), remote |-> rem]
        ELSE [out |-> Outcome([rd EXCEPT !.id = ""], "ok", "", FALSE, 0), remote |-> x.remote]

\* resourceBlobstoreFileExists: (bs != nil, err)
resourceBlobstoreFileExists(rd, rem, fault, nilOnMissing) ==
    LET g == FileGet(rem, rd.id, fault = "Get", nilOnMissing)
    IN  [exists |-> g.bs # <<>>, err |-> g.err]

\* schema.ImportStatePassthrough: a ResourceData that holds the ID alone
ImportStatePassthrough(id) == [EmptyData EXCEPT !.id = id]

----------------------------------------------------------------------------
(* The blobstore-file resource under the plugin host *)

\* kept: the callback handed the ResourceData back as it got it
Last(op, o, rd, exists) ==
    [op |-> op, res |-> o.res, failed |-> o.failed, getNil |-> o.getNil,
     listLen |-> o.listLen, kept |-> (o.d = rd), exists |-> exists, rejected |-> <<>>]

NoOutcome == Outcome(EmptyData, "none", "", FALSE, 0)

BlobInit ==
    /\ remote = [n \in Names |-> <<>>]
    /\ d = EmptyData
    /\ config = <<>>
    /\ last = Last("Init", NoOutcome, EmptyData, FALSE)
    /\ created = <<>>

\* the ResourceData of Create and Update: the configuration laid over the state
Overlay(rd, cfg) ==
    [rd EXCEPT !.name = cfg.name, !.path = cfg.path, !.soft_quota = cfg.soft_quota]

\* what the host stores of a ResourceData: a resource without ID is no resource
Persist(rd) == IF rd.id = "" THEN EmptyData ELSE rd

\* The host validates a configuration against the schema; one that passes is
\* the plan the next Create or Update applies.  Every callback ends the plan.
Plan(name, path, quota) ==
    LET cfg == [name |-> name, path |-> path, soft_quota |-> quota]
    IN  /\ IF validateBlobstoreFile(cfg)
           THEN /\ config' = <<cfg>>
                /\ last' = Last("Validate", Outcome(d, "ok", "", FALSE, 0), d, FALSE)
           ELSE /\ config' = config
                /\ last' = [Last("Validate", Outcome(d, "rejected", "", FALSE, 0), d, FALSE)
                               EXCEPT !.rejected = quota]
        /\ created' = <<>>
        /\ UNCHANGED <<remote, d>>

\* Create runs for a resource that has no ID yet; a panic of the plugin stores nothing
Create(fault, nilOnMissing, m) ==
    /\ d.id = ""
    /\ config # <<>>
    /\ LET rd == Overlay(EmptyData, config[1])
           c == resourceBlobstoreFileCreate(rd, remote, fault, nilOnMissing, m)
       IN  /\ d' = IF c.out.res = "panic" THEN d ELSE Persist(c.out.d)
           /\ remote' = c.remote
           /\ last' = Last("Create", c.out, rd, FALSE)
           /\ created' = IF c.out.res = "ok"
                         THEN <<[d |-> c.out.d, r |-> c.remote[c.out.d.id]]>>
                         ELSE <<>>
    /\ config' = <<>>

\* Read, Update, Delete and Exists run for a resource that has an ID
Read(fault, nilOnMissing) ==
    /\ d.id # ""
    /\ LET o == resourceBlobstoreFileRead(d, remote, fault, nilOnMissing)
       IN  /\ d' = IF o.res = "panic" THEN d ELSE Persist(o.d)
           /\ last' = Last("Read", o, d, FALSE)
    /\ config' = <<>>
    /\ UNCHANGED <<remote, created>>

\* Update runs when the configuration differs from the state; the host stores
\* the ResourceData the callback leaves, also when the callback returns an error
Update(fault) ==
    /\ d.id # ""
    /\ config # <<>>
    /\ Overlay(d, config[1]) # d
    /\ LET rd == Overlay(d, config[1])
           u == resourceBlobstoreFileUpdate(rd, remote, fault)
       IN  /\ d' = Persist(u.out.d)
           /\ remote' = u.remote
           /\ last' = Last("Update", u.out, rd, FALSE)
           /\ created' = IF u.out.res = "ok" THEN <<>> ELSE created
    /\ config' = <<>>

Delete(fault) ==
    /\ d.id # ""
    /\ LET x == resourceBlobstoreFileDelete(d, remote, fault)
       IN  /\ d' = Persist(x.out.d)
           /\ remote' = x.remote
           /\ last' = Last("Delete", x.out, d, FALSE)
           /\ created' = IF x.out.res = "ok" THEN <<>> ELSE created
    /\ config' = <<>>

\* the host drops a resource whose Exists returns false without error
ExistsCall(fault, nilOnMissing) ==
    /\ d.id # ""
    /\ LET e == resourceBlobstoreFileExists(d, remote, fault, nilOnMissing)
       IN  /\ last' = Last("Exists",
                           Outcome(d, IF e.err THEN "error" ELSE "ok",
                                   IF e.err THEN "Get" ELSE "", ~e.exists, 0),
                           d, e.exists)
           /\ d' = IF ~e.err /\ ~e.exists THEN EmptyData ELSE d
    /\ config' = <<>>
    /\ UNCHANGED <<remote, created>>

\* terraform import: the passthrough importer sets the ID, then the host runs Read;
\* an import whose Read fails adds nothing to the state
Import(id, fault, nilOnMissing) ==
    /\ LET rd == ImportStatePassthrough(id)
           o == resourceBlobstoreFileRead(rd, remote, fault, nilOnMissing)
       IN  /\ d' = IF o.res = "ok" THEN Persist(o.d) ELSE d
           /\ last' = Last("Import", o, rd, FALSE)
    /\ config' = <<>>
    /\ UNCHANGED <<remote, created>>

----------------------------------------------------------------------------
(* nexus_security_user_token: the global user-token configuration *)

\* the ID setSecurityUserTokenToResourceData gives the resource
UserTokenID == "golbalUserTokenConfiguration"

\* the schema's Default of protect_content
ProtectContentDefault == FALSE

EmptyTokenData == [id |-> "", enabled |-> FALSE, protect_content |-> FALSE]

TokenConfigurations == [enabled : BOOLEAN, protectContent : BOOLEAN]

\* Security.UserTokens.Get(): (token, err)
UserTokensGet(trem, fail) == [err |-> fail, token |-> trem]

\* Security.UserTokens.Configure(token)
UserTokensConfigure(trem, token, fail) ==
    IF fail THEN [err |-> TRUE, remote |-> trem] ELSE [err |-> FALSE, remote |-> token]

\* a conversion that leaves ProtectContent at its zero value
getSecurityUserTokenFromResourceData_NoProtect(rd) ==
    [enabled |-> rd.enabled, protectContent |-> FALSE]

getSecurityUserTokenFromResourceData(rd) ==
    [enabled |-> rd.enabled, protectContent |-> rd.protect_content]

setSecurityUserTokenToResourceData(token, rd) ==
    [rd EXCEPT !.id = UserTokenID,
               !.enabled = token.enabled,
               !.protect_content = token.protectContent]

TokenOutcome(rd, res, failed, calls) ==
    [d |-> rd, res |-> res, failed |-> failed, calls |-> calls]

\* resourceSecurityUserTokenRead
resourceSecurityUserTokenRead(rd, trem, getFail) ==
    LET g == UserTokensGet(trem, getFail)
    IN  IF g.err THEN TokenOutcome(rd, "error", "Get", <<"Get">>)
        ELSE TokenOutcome(setSecurityUserTokenToResourceData(g.token, rd), "ok", "", <<"Get">>)

\* resourceSecurityUserTokenUpdate, which is the Create as well
resourceSecurityUserTokenUpdate(rd, trem, configureFail, getFail) ==
    LET token == getSecurityUserTokenFromResourceData(rd)
        c == UserTokensConfigure(trem, token, configureFail)
        r == resourceSecurityUserTokenRead(rd, c.remote, getFail)
    IN  IF c.err
        THEN [out |-> TokenOutcome(rd, "error", "Configure", <<"Configure">>), remote |-> trem]
        ELSE [out |-> [r EXCEPT !.calls = <<"Configure">> \o r.calls], remote |-> c.remote]

\* a Delete that switches the user tokens off in Nexus
resourceSecurityUserTokenDelete_Disables(rd, trem) ==
    LET c == UserTokensConfigure(trem, [enabled |-> FALSE, protectContent |-> FALSE], FALSE)
    IN  [out |-> TokenOutcome(rd, "ok", "", <<"Configure">>), remote |-> c.remote]

\* resourceSecurityUserTokenDelete: returns nil and calls nothing
resourceSecurityUserTokenDelete(rd, trem) ==
    [out |-> TokenOutcome(rd, "ok", "", <<>>), remote |-> trem]

\* schema.ImportStatePassthroughContext: a ResourceData that holds the ID alone
TokenImportStatePassthrough(id) == [EmptyTokenData EXCEPT !.id = id]

TokenImportIds == {UserTokenID, "any"}

TokenLast(op, o, rd) ==
    [op |-> op, res |-> o.res, failed |-> o.failed, calls |-> o.calls, kept |-> (o.d = rd)]

TokenInit ==
    /\ tokenRemote \in (IF kind = "security_user_token" THEN TokenConfigurations
                        ELSE {[enabled |-> FALSE, protectContent |-> FALSE]})
    /\ td = EmptyTokenData
    /\ tconfig = <<>>
    /\ tlast = TokenLast("Init", TokenOutcome(EmptyTokenData, "none", "", <<>>), EmptyTokenData)
    /\ tcreated = <<>>
    /\ tconfigured = <<>>

\* the ResourceData of Create and Update: the configuration laid over the state
TokenOverlay(rd, cfg) ==
    [rd EXCEPT !.enabled = cfg.enabled, !.protect_content = cfg.protectContent]

TokenPersist(rd) == IF rd.id = "" THEN EmptyTokenData ELSE rd

\* A configuration of the resource; protect_content takes the schema's default
\* when the configuration omits it.
TokenPlan(enabled, protect) ==
    LET pc == IF protect = <<>> THEN ProtectContentDefault ELSE protect[1]
    IN  /\ tconfig' = <<[enabled |-> enabled, protectContent |-> pc]>>
        /\ tlast' = TokenLast("Plan", TokenOutcome(td, "ok", "", <<>>), td)
        /\ UNCHANGED <<tokenRemote, td, tcreated, tconfigured>>

TokenCreate(configureFail, getFail) ==
    /\ td.id = ""
    /\ tconfig # <<>>
    /\ LET rd == TokenOverlay(EmptyTokenData, tconfig[1])
           u == resourceSecurityUserTokenUpdate(rd, tokenRemote, configureFail, getFail)
       IN  /\ td' = TokenPersist(u.out.d)
           /\ tokenRemote' = u.remote
           /\ tlast' = TokenLast("Create", u.out, rd)
           /\ tcreated' = IF u.out.res = "ok" THEN <<u.out.d>>
                          ELSE IF u.remote # tokenRemote THEN <<>> ELSE tcreated
           /\ tconfigured' = IF u.out.failed = "Configure" THEN tconfigured
                             ELSE <<getSecurityUserTokenFromResourceData(rd)>>
    /\ UNCHANGED tconfig

TokenUpdate(configureFail, getFail) ==
    /\ td.id # ""
    /\ tconfig # <<>>
    /\ TokenOverlay(td, tconfig[1]) # td
    /\ LET rd == TokenOverlay(td, tconfig[1])
           u == resourceSecurityUserTokenUpdate(rd, tokenRemote, configureFail, getFail)
       IN  /\ td' = TokenPersist(u.out.d)
           /\ tokenRemote' = u.remote
           /\ tlast' = TokenLast("Update", u.out, rd)
           /\ tcreated' = IF u.remote # tokenRemote THEN <<>> ELSE tcreated
           /\ tconfigured' = IF u.out.failed = "Configure" THEN tconfigured
                             ELSE <<getSecurityUserTokenFromResourceData(rd)>>
    /\ UNCHANGED tconfig

TokenRead(getFail) ==
    /\ td.id # ""
    /\ LET o == resourceSecurityUserTokenRead(td, tokenRemote, getFail)
       IN  /\ td' = TokenPersist(o.d)
           /\ tlast' = TokenLast("Read", o, td)
    /\ UNCHANGED <<tokenRemote, tconfig, tcreated, tconfigured>>

\* after a Delete that returns nil the host drops the resource from the state
TokenDelete ==
    /\ td.id # ""
    /\ LET x == resourceSecurityUserTokenDelete(td, tokenRemote)
       IN  /\ td' = EmptyTokenData
           /\ tokenRemote' = x.remote
           /\ tlast' = TokenLast("Delete", x.out, td)
           /\ tconfigured' = IF x.out.calls = <<>> THEN tconfigured ELSE <<x.remote>>
    /\ UNCHANGED <<tconfig, tcreated>>

TokenImport(id, getFail) ==
    /\ LET rd == TokenImportStatePassthrough(id)
           o == resourceSecurityUserTokenRead(rd, tokenRemote, getFail)
       IN  /\ td' = IF o.res = "ok" THEN TokenPersist(o.d) ELSE td
           /\ tlast' = TokenLast("Import", o, rd)
    /\ UNCHANGED <<tokenRemote, tconfig, tcreated, tconfigured>>

TokenNext ==
    \/ \E e \in BOOLEAN, p \in {<<>>, <<TRUE>>, <<FALSE>>} : TokenPlan(e, p)
    \/ \E cf, gf \in BOOLEAN : TokenCreate(cf, gf)
    \/ \E cf, gf \in BOOLEAN : TokenUpdate(cf, gf)
    \/ \E gf \in BOOLEAN : TokenRead(gf)
    \/ TokenDelete
    \/ \E id \in TokenImportIds, gf \in BOOLEAN : TokenImport(id, gf)

----------------------------------------------------------------------------
(* The yum-proxy repository data source *)

EmptyRepoData == [id |-> "", name |-> "", online |-> FALSE]

\* every content of Nexus' yum proxy repositories
RepoStates ==
    [Names -> {<<>>} \cup {<<[online |-> o]>> : o \in BOOLEAN}]

RepoOf(rp, name) == [name |-> name, online |-> rp[name][1].online]

\* Repository.Yum.Proxy.Get(id): (repo, err); a missing repository is (nil, nil) or an error
YumProxyGet(rp, id, fail, nilOnMissing) ==
    IF fail THEN [err |-> TRUE, repo |-> <<>>]
    ELSE IF id \in Names /\ rp[id] # <<>> THEN [err |-> FALSE, repo |-> <<RepoOf(rp, id)>>]
    ELSE IF nilOnMissing THEN [err |-> FALSE, repo |-> <<>>]
    ELSE [err |-> TRUE, repo |-> <<>>]

RepoOutcome(rd, res, failed) == [d |-> rd, res |-> res, failed |-> failed]

\* resourceYumProxyRepositoryRead: gets the repository named by the ID and
\* writes it to the ResourceData; a missing repository clears the ID
resourceYumProxyRepositoryRead(rd, rp, getFail, nilOnMissing) ==
    LET g == YumProxyGet(rp, rd.id, getFail, nilOnMissing)
    IN  [repos |-> rp,
         out |-> IF g.err THEN RepoOutcome(rd, "error", "Get")
                 ELSE IF g.repo = <<>> THEN RepoOutcome([rd EXCEPT !.id = ""], "ok", "")
                 ELSE RepoOutcome([rd EXCEPT !.id = g.repo[1].name,
                                             !.name = g.repo[1].name,
                                             !.online = g.repo[1].online], "ok", "")]

\* a data source Read wired to the resource's update: it writes the repository
dataSourceRepositoryYumProxyRead_Writes(rd, rp, getFail, nilOnMissing) ==
    LET r == resourceYumProxyRepositoryRead([rd EXCEPT !.id = rd.name], rp, getFail, nilOnMissing)
    IN  [r EXCEPT !.repos = IF r.out.res = "ok" /\ r.out.d.id # ""
                            THEN [rp EXCEPT ![rd.name] = <<[online |-> rd.online]>>]
                            ELSE rp]

\* a data source Read that forgets to set the ID before the remote read
dataSourceRepositoryYumProxyRead_NoSetId(rd, rp, getFail, nilOnMissing) ==
    resourceYumProxyRepositoryRead(rd, rp, getFail, nilOnMissing)

\* dataSourceRepositoryYumProxyRead
dataSourceRepositoryYumProxyRead(rd, rp, getFail, nilOnMissing) ==
    resourceYumProxyRepositoryRead([rd EXCEPT !.id = rd.name], rp, getFail, nilOnMissing)

DataSourceInit ==
    /\ repos \in (IF kind = "data_source_yum_proxy" THEN RepoStates
                  ELSE {[n \in Names |-> <<>>]})
    /\ ds = EmptyRepoData
    /\ dslast = [op |-> "Init", res |-> "none", failed |-> "", name |-> "", existed |-> FALSE]

\* The host builds the ResourceData from the configured name and runs the Read
DataSourceRead(name, getFail, nilOnMissing) ==
    LET r == dataSourceRepositoryYumProxyRead([EmptyRepoData EXCEPT !.name = name],
                                              repos, getFail, nilOnMissing)
    IN  /\ ds' = r.out.d
        /\ repos' = r.repos
        /\ dslast' = [op |-> "Read", res |-> r.out.res, failed |-> r.out.failed,
                      name |-> name, existed |-> repos[name] # <<>>]

DataSourceNext ==
    \E n \in Names, gf, nm \in BOOLEAN : DataSourceRead(n, gf, nm)

----------------------------------------------------------------------------
(* nexus_repository: a repository of any format, as its acceptance tests use it *)

Formats == {"nuget", "maven2", "docker"}

Types == {"hosted", "proxy"}

\* the blocks of the schema that belong to one repository format
FormatBlocks ==
    {"maven", "apt", "apt_signing", "bower", "docker", "docker_proxy", "nuget_proxy"}

\* the blocks the configuration of a repository of a format and type carries
BlocksOf(format, type) ==
    CASE format = "maven2" -> {"maven"}
      [] format = "docker" -> IF type = "proxy" THEN {"docker", "docker_proxy"} ELSE {"docker"}
      [] format = "nuget" -> IF type = "proxy" THEN {"nuget_proxy"} ELSE {}
      [] OTHER -> {}

EmptyLegacyData ==
    [id |-> "", name |-> "", format |-> "", type |-> "", blocks |-> [b \in FormatBlocks |-> 0]]

\* getRepositoryFromResourceData: a block of the ResourceData becomes a non-nil field
getRepositoryFromResourceData(rd) ==
    [name |-> rd.name, format |-> rd.format, type |-> rd.type,
     blocks |-> {b \in FormatBlocks : rd.blocks[b] > 0}]

\* a flattener that turns a nil field into one empty element
flattenRepositoryBlock_NilAsElement(repo, b) == 1

\* the number of elements a flattened block has in the state: none for a nil field
flattenRepositoryBlock(repo, b) == IF b \in repo.blocks THEN 1 ELSE 0

\* Repository.Create(repo)
RepositoryCreate(lr, repo, fail) ==
    IF fail \/ repo.name \notin Names \/ lr[repo.name] # <<>>
    THEN [err |-> TRUE, repos |-> lr]
    ELSE [err |-> FALSE, repos |-> [lr EXCEPT ![repo.name] = <<repo>>]]

\* Repository.Get(id)
RepositoryGet(lr, id, fail, nilOnMissing) ==
    IF fail THEN [err |-> TRUE, repo |-> <<>>]
    ELSE IF id \in Names /\ lr[id] # <<>> THEN [err |-> FALSE, repo |-> lr[id]]
    ELSE IF nilOnMissing THEN [err |-> FALSE, repo |-> <<>>]
    ELSE [err |-> TRUE, repo |-> <<>>]

\* Repository.Delete(id)
RepositoryDelete(lr, id, fail) ==
    IF fail \/ id \notin Names \/ lr[id] = <<>>
    THEN [err |-> TRUE, repos |-> lr]
    ELSE [err |-> FALSE, repos |-> [lr EXCEPT ![id] = <<>>]]

\* resourceRepositoryRead: the repository Nexus returns, written to the ResourceData
resourceRepositoryRead(rd, lr, getFail, nilOnMissing) ==
    LET g == RepositoryGet(lr, rd.id, getFail, nilOnMissing)
    IN  IF g.err THEN RepoOutcome(rd, "error", "Get")
        ELSE IF g.repo = <<>> THEN RepoOutcome([rd EXCEPT !.id = ""], "ok", "")
        ELSE RepoOutcome([rd EXCEPT !.name = g.repo[1].name,
                                    !.format = g.repo[1].format,
                                    !.type = g.repo[1].type,
                                    !.blocks = [b \in FormatBlocks |->
                                                   flattenRepositoryBlock(g.repo[1], b)]],
                         "ok", "")

\* resourceRepositoryCreate
resourceRepositoryCreate(rd, lr, createFail, getFail, nilOnMissing) ==
    LET repo == getRepositoryFromResourceData(rd)
        c == RepositoryCreate(lr, repo, createFail)
        r == resourceRepositoryRead([rd EXCEPT !.id = repo.name], c.repos, getFail, nilOnMissing)
    IN  IF c.err THEN [out |-> RepoOutcome(rd, "error", "Create"), repos |-> lr]
        ELSE [out |-> r, repos |-> c.repos]

\* resourceRepositoryDelete
resourceRepositoryDelete(rd, lr, deleteFail) ==
    LET x == RepositoryDelete(lr, rd.id, deleteFail)
    IN  IF x.err THEN [out |-> RepoOutcome(rd, "error", "Delete"), repos |-> lr]
        ELSE [out |-> RepoOutcome([rd EXCEPT !.id = ""], "ok", ""), repos |-> x.repos]

LegacyLast(op, o) == [op |-> op, res |-> o.res, failed |-> o.failed]

LegacyInit ==
    /\ lrepos = [n \in Names |-> <<>>]
    /\ ld = EmptyLegacyData
    /\ llast = LegacyLast("Init", RepoOutcome(EmptyLegacyData, "none", ""))

\* the configuration the acceptance tests write for a repository of a format and type
LegacyPlan(name, format, type) ==
    /\ ld.id = ""
    /\ ld' = [EmptyLegacyData EXCEPT !.name = name, !.format = format, !.type = type,
                 !.blocks = [b \in FormatBlocks |->
                                IF b \in BlocksOf(format, type) THEN 1 ELSE 0]]
    /\ llast' = LegacyLast("Plan", RepoOutcome(ld, "ok", ""))
    /\ UNCHANGED lrepos

LegacyCreate(createFail, getFail, nilOnMissing) ==
    /\ ld.id = ""
    /\ ld.name # ""
    /\ LET c == resourceRepositoryCreate(ld, lrepos, createFail, getFail, nilOnMissing)
       IN  /\ ld' = c.out.d
           /\ lrepos' = c.repos
           /\ llast' = LegacyLast("Create", c.out)

LegacyRead(getFail, nilOnMissing) ==
    /\ ld.id # ""
    /\ LET o == resourceRepositoryRead(ld, lrepos, getFail, nilOnMissing)
       IN  /\ ld' = o.d
           /\ llast' = LegacyLast("Read", o)
    /\ UNCHANGED lrepos

LegacyDelete(deleteFail) ==
    /\ ld.id # ""
    /\ LET x == resourceRepositoryDelete(ld, lrepos, deleteFail)
       IN  /\ ld' = x.out.d
           /\ lrepos' = x.repos
           /\ llast' = LegacyLast("Delete", x.out)

LegacyNext ==
    \/ \E n \in Names, f \in Formats, t \in Types : LegacyPlan(n, f, t)
    \/ \E cf, gf, nm \in BOOLEAN : LegacyCreate(cf, gf, nm)
    \/ \E gf, nm \in BOOLEAN : LegacyRead(gf, nm)
    \/ \E df \in BOOLEAN : LegacyDelete(df)

----------------------------------------------------------------------------
(* repository.ResourceHTTPClient: the http_client block of the proxy         *)
(* repositories.  The attributes that declare a Default, those of the nested *)
(* connection block beside auto_block and blocked.                           *)

\* a Go value together with its dynamic type: go names the type and the field
\* of that type holds the value
GoBool(v) == [go |-> "bool", b |-> v, i |-> 0, s |-> ""]

GoInt(v) == [go |-> "int", b |-> FALSE, i |-> v, s |-> ""]

GoString(v) == [go |-> "string", b |-> FALSE, i |-> 0, s |-> v]

\* the Go type of the values of a schema.ValueType
GoTypeOf(t) ==
    CASE t = "TypeBool" -> "bool"
      [] t = "TypeInt" -> "int"
      [] t = "TypeString" -> "string"

RetriesMin == 0

RetriesMax == 10

TimeoutMin == 0

TimeoutMax == 3600

\* validation.IntBetween(min, max): the value is an int within the bounds
IntBetween(min, max, v) == v.go = "int" /\ v.i >= min /\ v.i <= max

\* Type, Default and ValidateFunc as the schema declares them
ResourceHTTPClient ==
    [auto_block |-> [type |-> "TypeBool", default |-> GoBool(TRUE), validate |-> "none"],
     blocked |-> [type |-> "TypeBool", default |-> GoBool(FALSE), validate |-> "none"],
     enable_circular_redirects |->
         [type |-> "TypeBool", default |-> GoBool(FALSE), validate |-> "none"],
     enable_cookies |-> [type |-> "TypeBool", default |-> GoBool(FALSE), validate |-> "none"],
     retries |-> [type |-> "TypeInt", default |-> GoInt(0), validate |-> "retries"],
     timeout |-> [type |-> "TypeInt", default |-> GoInt(0), validate |-> "timeout"],
     user_agent_suffix |->
         [type |-> "TypeString", default |-> GoBool(FALSE), validate |-> "none"],
     use_trust_store |-> [type |-> "TypeBool", default |-> GoBool(FALSE), validate |-> "none"]]

HTTPClientAttributes == DOMAIN ResourceHTTPClient

\* the ValidateFunc of an attribute applied to a value
validateHTTPClientAttribute(a, v) ==
    CASE ResourceHTTPClient[a].validate = "retries" -> IntBetween(RetriesMin, RetriesMax, v)
      [] ResourceHTTPClient[a].validate = "timeout" -> IntBetween(TimeoutMin, TimeoutMax, v)
      [] OTHER -> TRUE

\* a value of the attribute's declared type
OfDeclaredType(a, v) == v.go = GoTypeOf(ResourceHTTPClient[a].type)

\* values a configuration may give an attribute, each of the declared type:
\* <<>> leaves the attribute out
HTTPClientInputs(a) ==
    {<<>>} \cup
    (CASE a = "retries" -> {<<GoInt(RetriesMax)>>, <<GoInt(RetriesMax + 1)>>}
       [] a = "timeout" -> {<<GoInt(TimeoutMax)>>, <<GoInt(TimeoutMax + 1)>>}
       [] a = "user_agent_suffix" -> {<<GoString("agent")>>}
       [] OTHER -> {<<GoBool(TRUE)>>})

HTTPClientConfigurations ==
    [auto_block : HTTPClientInputs("auto_block"),
     blocked : HTTPClientInputs("blocked"),
     enable_circular_redirects : HTTPClientInputs("enable_circular_redirects"),
     enable_cookies : HTTPClientInputs("enable_cookies"),
     retries : HTTPClientInputs("retries"),
     timeout : HTTPClientInputs("timeout"),
     user_agent_suffix : HTTPClientInputs("user_agent_suffix"),
     use_trust_store : HTTPClientInputs("use_trust_store")]

\* schema.Schema.DefaultValue: the declared Default, as declared
DefaultValue(a) == ResourceHTTPClient[a].default

HTTPClientInit ==
    /\ hd = [a \in HTTPClientAttributes |-> <<>>]
    /\ hlast = [op |-> "Init", res |-> "none", omitted |-> {}]

\* The host validates the attributes the configuration gives with their
\* ValidateFunc and plans the Default for each attribute it leaves out.
HTTPClientPlan(cfg) ==
    LET omitted == {a \in HTTPClientAttributes : cfg[a] = <<>>}
        valid == \A a \in HTTPClientAttributes \ omitted : validateHTTPClientAttribute(a, cfg[a][1])
    IN  IF valid
        THEN /\ hd' = [a \in HTTPClientAttributes |->
                          IF a \in omitted THEN <<DefaultValue(a)>> ELSE cfg[a]]
             /\ hlast' = [op |-> "Plan", res |-> "ok", omitted |-> omitted]
        ELSE /\ hd' = hd
             /\ hlast' = [op |-> "Plan", res |-> "rejected", omitted |-> {}]

HTTPClientNext == \E cfg \in HTTPClientConfigurations : HTTPClientPlan(cfg)

----------------------------------------------------------------------------
(* The provider under the plugin host.  The resources share nothing: each    *)
(* callback reads and writes its own ResourceData and its own Nexus objects, *)
(* so a run drives one of them and leaves the others as constructed.         *)

Kinds ==
    {"blobstore_file", "security_user_token", "data_source_yum_proxy", "repository",
     "repository_http_client"}

\* A callback returns at the first client call that fails: fault names that
\* call, "none" when every call succeeds.
LifecycleNext ==
    \/ \E n \in Names, p \in Paths, q \in QuotaInputs : Plan(n, p, q)
    \/ \E f \in {"none", "Create", "Get", "List"}, nm \in BOOLEAN, m \in Metrics : Create(f, nm, m)
    \/ \E f \in {"none", "Get", "List"}, nm \in BOOLEAN : Read(f, nm)
    \/ \E f \in {"none", "Update"} : Update(f)
    \/ \E f \in {"none", "Delete"} : Delete(f)
    \/ \E f \in {"none", "Get"}, nm \in BOOLEAN : ExistsCall(f, nm)

\* someone else deletes a blobstore in Nexus, outside Terraform
OutOfBandDelete(n) ==
    /\ Exists(remote, n)
    /\ remote' = FileDelete(remote, n, FALSE).remote
    /\ last' = Last("OutOfBand", NoOutcome, EmptyData, FALSE)
    /\ config' = <<>>
    /\ created' = <<>>
    /\ UNCHANGED d

BlobNext ==
    \/ LifecycleNext
    \/ \E n \in Names, f \in {"none", "Get", "List"}, nm \in BOOLEAN : Import(n, f, nm)
    \/ \E n \in Names : OutOfBandDelete(n)

Init ==
    /\ kind \in Kinds
    /\ BlobInit
    /\ TokenInit
    /\ DataSourceInit
    /\ LegacyInit
    /\ HTTPClientInit

Next ==
    \/ kind = "blobstore_file" /\ BlobNext /\ UNCHANGED <<kind, tvars, dvars, lvars, hvars>>
    \/ kind = "security_user_token" /\ TokenNext /\ UNCHANGED <<kind, bvars, dvars, lvars, hvars>>
    \/ kind = "data_source_yum_proxy" /\ DataSourceNext
           /\ UNCHANGED <<kind, bvars, tvars, lvars, hvars>>
    \/ kind = "repository" /\ LegacyNext /\ UNCHANGED <<kind, bvars, tvars, dvars, hvars>>
    \/ kind = "repository_http_client" /\ HTTPClientNext
           /\ UNCHANGED <<kind, bvars, tvars, dvars, lvars>>

Spec == Init /\ [][Next]_vars

\* the blobstore-file resource under Create, Read, Update, Delete and Exists alone
LifecycleInit ==
    /\ kind = "blobstore_file"
    /\ BlobInit
    /\ TokenInit
    /\ DataSourceInit
    /\ LegacyInit
    /\ HTTPClientInit

SpecLifecycle ==
    LifecycleInit /\ [][LifecycleNext /\ UNCHANGED <<kind, tvars, dvars, lvars, hvars>>]_vars

----------------------------------------------------------------------------
(* Properties *)

\* the state of the blobstore-file resource holds what Nexus holds for blobstore b
MirrorsRemote(rd, b) ==
    /\ rd.name = b.name
    /\ rd.path = b.path
    /\ rd.soft_quota = (IF b.softQuota = <<>> THEN <<>>
                        ELSE <<[limit |-> b.softQuota[1].limit, type |-> b.softQuota[1].type]>>)
    /\ rd.available_space_in_bytes = b.availableSpaceInBytes
    /\ rd.blob_count = b.blobCount
    /\ rd.total_size_in_bytes = b.totalSizeInBytes

\* C1: after a successful Read of the blobstore-file resource every attribute of
\* the state equals the remote blobstore's value, whatever the state held before;
\* a remote blobstore without soft quota leaves no soft_quota in the state.
C1_ReadMirrorsRemote ==
    (last.op = "Read" /\ last.res = "ok" /\ d.id # "") => MirrorsRemote(d, remote[d.id][1])

\* C2: the Read of the yum-proxy data source changes no repository of Nexus,
\* whether it succeeds or fails.
C2_DataSourceReadOnly ==
    [][kind = "data_source_yum_proxy" => repos' = repos]_vars

C2_Witness ==
    /\ dslast.op = "Read"
    /\ dslast.res = "ok"
    /\ dslast.existed
    /\ ds.id = dslast.name
    /\ \E n \in Names : n # dslast.name /\ repos[n] # <<>>

C4_LimitMinimum ==
    /\ (last.op = "Validate" /\ last.res = "ok" /\ config[1].soft_quota # <<>>)
           => config[1].soft_quota[1].limit >= DocumentedLimitMin
    /\ (last.op = "Validate" /\ last.res = "rejected" /\ last.rejected # <<>>
            /\ last.rejected[1].type \in SoftQuotaTypes)
           => last.rejected[1].limit < DocumentedLimitMin

\* import of the blobstore that was created, unchanged since, gives the state the Create left
BlobImportRoundTrip ==
    (/\ last.op = "Import"
     /\ last.res = "ok"
     /\ created # <<>>
     /\ d.id # ""
     /\ d.id = created[1].d.id
     /\ remote[d.id] = created[1].r)
        => d = created[1].d

\* import of the user-token configuration, unchanged since the Create, gives the state
\* the Create left, whatever ID the import was given
TokenImportRoundTrip ==
    (tlast.op = "Import" /\ tlast.res = "ok" /\ tcreated # <<>>) => td = tcreated[1]

C6_UserTokenReadBack ==
    /\ (tlast.op \in {"Create", "Update"} /\ tlast.res = "ok") =>
           /\ td.enabled = tconfig[1].enabled
           /\ td.protect_content = tconfig[1].protectContent
           /\ tokenRemote = tconfig[1]
    /\ (tlast.op \in {"Create", "Update", "Read", "Import"} /\ tlast.res = "ok") =>
           td.id = UserTokenID

C6_Witness ==
    /\ tlast.op = "Update"
    /\ tlast.res = "ok"
    /\ td.enabled
    /\ td.protect_content
    /\ tokenRemote = [enabled |-> TRUE, protectContent |-> TRUE]

OtherFormatBlocks == {"maven", "apt", "apt_signing", "bower", "docker", "docker_proxy"}

C8_NilGetClearsId ==
    (last.op \in {"Read", "Import"} /\ last.getNil /\ last.failed = "")
        => (last.res = "ok" /\ d.id = "")

\* a failed callback handed the ResourceData back as it got it
FailureKeepsResourceData ==
    /\ (last.op = "Create" /\ last.failed = "Create") =>
           (last.res = "error" /\ last.kept /\ d.id = "")
    /\ (last.op \in {"Update", "Delete"} /\ last.failed = last.op) =>
           (last.res = "error" /\ last.kept /\ d.id # "")
    /\ (tlast.op \in {"Create", "Update"} /\ tlast.failed = "Configure") =>
           (tlast.res = "error" /\ tlast.kept /\ tlast.calls = <<"Configure">>)

C10_IdIffExists ==
    /\ \A n \in Names : Exists(remote, n) <=> d.id = n
    /\ d.id # "" => d.id \in Names
    /\ (last.op = "Exists" /\ last.res = "ok") => (last.exists <=> Exists(remote, d.id))

C10_Witness ==
    /\ last.op = "Exists"
    /\ last.res = "ok"
    /\ last.exists
    /\ d.id # ""
    /\ Exists(remote, d.id)

\* C11: after every successful Create, Read or Update of the blobstore-file
\* resource that leaves a resource, the ID equals the name attribute of the state
\* and names a blobstore that exists in Nexus, also when the Update applied a
\* configured name other than the ID.
C11_IdEqualsName ==
    (last.op \in {"Create", "Read", "Update"} /\ last.res = "ok" /\ d.id # "")
        => (d.id = d.name /\ Exists(remote, d.id))

\* the Delete of the user-token resource returned nil after no client call, and
\* Nexus holds what the last successful Configure sent
DeleteLeftConfiguration ==
    tlast.op = "Delete" =>
        /\ tlast.res = "ok"
        /\ tlast.calls = <<>>
        /\ tlast.kept
        /\ tconfigured # <<>> => tokenRemote = tconfigured[1]

\* C12: Delete of the user-token resource calls nothing in Nexus and returns
\* success: it changes no field of the remote user-token configuration, which
\* after Create and Update calls followed by Delete is what the last successful
\* Configure set.
C12_DeleteLeavesRemote ==
    /\ []DeleteLeftConfiguration
    /\ [][(td.id # "" /\ tlast'.op = "Delete") => tokenRemote' = tokenRemote]_vars

C12_Witness ==
    /\ tlast.op = "Delete"
    /\ tlast.res = "ok"
    /\ tlast.calls = <<>>
    /\ td.id = ""
    /\ tconfigured = <<[enabled |-> TRUE, protectContent |-> TRUE]>>
    /\ tokenRemote = [enabled |-> TRUE, protectContent |-> TRUE]

\* C13: every Default of the http_client schema is a value of the attribute's
\* declared type and passes the attribute's ValidateFunc: in a planned block each
\* attribute the configuration left out holds a bool for the TypeBool attributes,
\* an int in 0..10 for retries, an int in 0..3600 for timeout and a string for
\* user_agent_suffix.
C13_DefaultsWellTyped ==
    (hlast.op = "Plan" /\ hlast.res = "ok") =>
        \A a \in hlast.omitted :
            /\ hd[a] = <<DefaultValue(a)>>
            /\ OfDeclaredType(a, hd[a][1])
            /\ validateHTTPClientAttribute(a, hd[a][1])

====
